---- MODULE Spec2Model ----
(***************************************************************************)
(* Model of the Polygon stock adapter (src/src/index.ts): the two request  *)
(* handlers that call upstream (ReadResource, CallTool), each split at its *)
(* single await on axiosInstance.get.                                      *)
(*                                                                         *)
(* JavaScript values are tagged records: t is the value's kind, v its      *)
(* payload, f the property table of an object.  A property an object does  *)
(* not have is Absent in the table; reading it yields Undef.               *)
(***************************************************************************)
EXTENDS Integers, Sequences, FiniteSets, TLC

VARIABLES config, now, pc, req, gets, reply, out

vars == <<config, now, pc, req, gets, reply, out>>

\* ---------------------------------------------------------------- bounds
NumReqs == 2        \* request slots that may overlap
MaxClock == 2       \* wall-clock ticks

Reqs == 1..NumReqs

\* ------------------------------------------------------------- JS values
Undef == [t |-> "undefined"]
Null == [t |-> "null"]
Absent == [t |-> "absent"]
Str(s) == [t |-> "string", v |-> s]
Num(n) == [t |-> "number", v |-> n]
Arr == [t |-> "array"]
Obj(f) == [t |-> "object", f |-> f]

None == [t |-> "none"]

\* typeof v
TypeOf(v) ==
  CASE v.t = "undefined" -> "undefined"
    [] v.t = "null" -> "object"
    [] v.t = "array" -> "object"
    [] v.t = "object" -> "object"
    [] v.t = "string" -> "string"
    [] v.t = "number" -> "number"

\* k in o, for o of typeof "object" and not null
In(k, o) == o.t = "object" /\ k \in DOMAIN o.f /\ o.f[k] # Absent

\* o.k, for o neither null nor undefined
Get(o, k) == IF In(k, o) THEN o.f[k] ELSE Undef

\* o.k throws a TypeError
GetThrows(o) == o.t \in {"undefined", "null"}

\* the condition of if (v) and the left operand test of v || w
Truthy(v) ==
  CASE v.t \in {"undefined", "null"} -> FALSE
    [] v.t = "string" -> v.v # ""
    [] v.t = "number" -> v.v # 0
    [] OTHER -> TRUE

\* v ?? w
Coalesce(v, w) == IF v.t \in {"undefined", "null"} THEN w ELSE v

\* `${v}` for the values interpolated by this program
Interp(v) ==
  CASE v.t = "string" -> v.v
    [] v.t = "number" -> ToString(v.v)
    [] v.t = "undefined" -> "undefined"
    [] v.t = "null" -> "null"
    [] OTHER -> "[object Object]"

\* ---------------------------------------------------------- configuration
API_KEY == "test-key"

API_CONFIG ==
  [BASE_URL |-> "https://api.polygon.io/v1",
   DEFAULT_SYMBOL |-> "AAPL",
   ENDPOINTS |-> [LAST_TRADE |-> "last/stocks", DAILY_OPEN_CLOSE |-> "open-close"]]

\* axios.create({baseURL, params: {apiKey}})
axiosInstance ==
  [baseURL |-> API_CONFIG.BASE_URL, params |-> [apiKey |-> API_KEY]]

\* the request this.axiosInstance.get(endpoint) puts on the wire
AxiosGet(cfg, endpoint) ==
  [url |-> endpoint, baseURL |-> cfg.axios.baseURL, params |-> cfg.axios.params]

\* new Date().toISOString() at clock value c
Pad2(n) == IF n < 10 THEN "0" \o ToString(n) ELSE ToString(n)
toISOString(c) == "2026-01-01T00:00:" \o Pad2(c) \o ".000Z"

\* new McpError(code, message)
McpError(code, message) == [t |-> "McpError", code |-> code, message |-> message]
TypeError == [t |-> "TypeError"]

Return(v) == [k |-> "return", value |-> v]
Throw(e) == [k |-> "throw", error |-> e]

\* ------------------------------------------------------------ pure parts
\* `stock://${symbol}/current`
ResourceUri(symbol) == "stock://" \o symbol \o "/current"

\* `${API_CONFIG.ENDPOINTS.LAST_TRADE}/${symbol}` of the resource handler
ResourceEndpoint(cfg, symbol) == cfg.api.ENDPOINTS.LAST_TRADE \o "/" \o symbol

\* the type guard with the check of date left out
isValidStockPriceArgs_NoDateCheck(args) ==
  /\ TypeOf(args) = "object"
  /\ args # Null
  /\ In("symbol", args)
  /\ TypeOf(Get(args, "symbol")) = "string"

\* Type guard for stock price arguments
isValidStockPriceArgs(args) ==
  /\ TypeOf(args) = "object"
  /\ args # Null
  /\ In("symbol", args)
  /\ TypeOf(Get(args, "symbol")) = "string"
  /\ (Get(args, "date") = Undef \/ TypeOf(Get(args, "date")) = "string")

\* the endpoint choice with the date branch lost
ToolEndpoint_NoDate(cfg, symbol, date) ==
  cfg.api.ENDPOINTS.LAST_TRADE \o "/" \o Interp(symbol)

\* the endpoint choice testing date !== "" in place of its truthiness
ToolEndpoint_DateNotEmpty(cfg, symbol, date) ==
  IF date # Str("")
    THEN cfg.api.ENDPOINTS.DAILY_OPEN_CLOSE \o "/" \o Interp(symbol) \o "/" \o Interp(date)
    ELSE cfg.api.ENDPOINTS.LAST_TRADE \o "/" \o Interp(symbol)

\* let endpoint = ...; if (date) endpoint = ...
ToolEndpoint(cfg, symbol, date) ==
  IF Truthy(date)
    THEN cfg.api.ENDPOINTS.DAILY_OPEN_CLOSE \o "/" \o Interp(symbol) \o "/" \o Interp(date)
    ELSE cfg.api.ENDPOINTS.LAST_TRADE \o "/" \o Interp(symbol)

\* the stockData literal of the resource handler
ResourceStockData(data, clock) ==
  [symbol |-> Get(data, "symbol"),
   price |-> Get(data, "close"),
   open |-> Get(data, "open"),
   high |-> Get(data, "high"),
   low |-> Get(data, "low"),
   volume |-> Get(data, "volume"),
   timestamp |-> Str(toISOString(clock))]

\* the stockData of the tool handler with a negative close clamped to zero
ToolStockData_Clamped(data, clock) ==
  [symbol |-> Get(data, "symbol"),
   price |-> IF Get(data, "close").t = "number" /\ Get(data, "close").v < 0
               THEN Num(0) ELSE Get(data, "close"),
   open |-> Get(data, "open"),
   high |-> Get(data, "high"),
   low |-> Get(data, "low"),
   volume |-> Get(data, "volume"),
   timestamp |-> IF Truthy(Get(data, "from"))
                   THEN Get(data, "from")
                   ELSE Str(toISOString(clock))]

\* the stockData literal of the tool handler
ToolStockData(data, clock) ==
  [symbol |-> Get(data, "symbol"),
   price |-> Get(data, "close"),
   open |-> Get(data, "open"),
   high |-> Get(data, "high"),
   low |-> Get(data, "low"),
   volume |-> Get(data, "volume"),
   timestamp |-> IF Truthy(Get(data, "from"))
                   THEN Get(data, "from")
                   ELSE Str(toISOString(clock))]

StockDataKeys == <<"symbol", "price", "open", "high", "low", "volume", "timestamp">>

\* JSON.stringify(stockData, null, 2): the members in insertion order, a
\* member whose value is undefined left out
RECURSIVE Members(_, _)
Members(o, keys) ==
  IF keys = <<>> THEN <<>>
  ELSE LET k == Head(keys)
           rest == Members(o, Tail(keys))
       IN IF o[k] = Undef THEN rest ELSE <<[key |-> k, value |-> o[k]]>> \o rest

JSONstringify(stockData) == Members(stockData, StockDataKeys)

\* error.response?.data.message throws (data is null or undefined)
DetailThrows(error) ==
  /\ error.response.t \notin {"undefined", "null"}
  /\ GetThrows(Get(error.response, "data"))

\* error.response?.data.message ?? error.message
Detail(error) ==
  Coalesce(IF error.response.t \in {"undefined", "null"}
             THEN Undef
             ELSE Get(Get(error.response, "data"), "message"),
           Str(error.message))

\* await this.axiosInstance.get(endpoint): the handler suspends on this GET
Await(endpoint) == [k |-> "get", endpoint |-> endpoint]

\* the resource handler matching the URI by prefix
ReadResourceBegin_Prefix(cfg, uri) ==
  LET symbol == cfg.api.DEFAULT_SYMBOL IN
    IF uri \notin {ResourceUri(symbol), ResourceUri(symbol) \o "/"}
      THEN Throw(McpError("InvalidRequest", "Unknown resource: " \o uri))
      ELSE Await(ResourceEndpoint(cfg, symbol))

\* the resource handler down to its GET
ReadResourceBegin(cfg, uri) ==
  LET symbol == cfg.api.DEFAULT_SYMBOL IN
    IF uri # ResourceUri(symbol)
      THEN Throw(McpError("InvalidRequest", "Unknown resource: " \o uri))
      ELSE Await(ResourceEndpoint(cfg, symbol))

\* the tool handler checking the arguments before the name
CallToolBegin_ArgsFirst(cfg, name, args) ==
  IF ~isValidStockPriceArgs(args)
    THEN Throw(McpError("InvalidParams", "Invalid stock price arguments"))
    ELSE IF name # "get_stock_price"
      THEN Throw(McpError("MethodNotFound", "Unknown tool: " \o name))
      ELSE Await(ToolEndpoint(cfg, Get(args, "symbol"), Get(args, "date")))

\* the tool handler down to its GET
CallToolBegin(cfg, name, args) ==
  IF name # "get_stock_price"
    THEN Throw(McpError("MethodNotFound", "Unknown tool: " \o name))
    ELSE IF ~isValidStockPriceArgs(args)
      THEN Throw(McpError("InvalidParams", "Invalid stock price arguments"))
      ELSE Await(ToolEndpoint(cfg, Get(args, "symbol"), Get(args, "date")))

\* the resource handler from the settled GET on
ReadResourceOutcome(request, rep, clock) ==
  CASE rep.k = "ok" ->
         IF GetThrows(rep.data)
           THEN Throw(TypeError)
           ELSE Return([contents |->
                  <<[uri |-> request.uri,
                     mimeType |-> "application/json",
                     text |-> JSONstringify(ResourceStockData(rep.data, clock))]>>])
    [] rep.k = "axios" ->
         IF DetailThrows(rep)
           THEN Throw(TypeError)
           ELSE Throw(McpError("InternalError",
                               "Polygon API error: " \o Interp(Detail(rep))))
    [] OTHER -> Throw(rep.error)

\* the tool handler keeping the response in a field of the server that the
\* requests share: it reads back the response of another finished request
CallToolOutcome_Shared(request, rep, clock) ==
  LET others == {q \in Reqs : pc[q] = "done" /\ reply[q] # None /\ reply[q] # rep}
      used == IF others = {} THEN rep ELSE reply[CHOOSE q \in others : TRUE]
  IN CASE used.k = "ok" ->
            IF GetThrows(used.data)
              THEN Throw(TypeError)
              ELSE Return([content |->
                     <<[type |-> "text",
                        text |-> JSONstringify(ToolStockData(used.data, clock))]>>,
                     isError |-> FALSE])
       [] used.k = "axios" ->
            IF DetailThrows(used)
              THEN Throw(TypeError)
              ELSE Return([content |->
                     <<[type |-> "text",
                        text |-> "Polygon API error: " \o Interp(Detail(used))]>>,
                     isError |-> TRUE])
       [] OTHER -> Throw(used.error)

\* the tool handler from the settled GET on
CallToolOutcome(request, rep, clock) ==
  CASE rep.k = "ok" ->
         IF GetThrows(rep.data)
           THEN Throw(TypeError)
           ELSE Return([content |->
                  <<[type |-> "text",
                     text |-> JSONstringify(ToolStockData(rep.data, clock))]>>,
                  isError |-> FALSE])
    [] rep.k = "axios" ->
         IF DetailThrows(rep)
           THEN Throw(TypeError)
           ELSE Return([content |->
                  <<[type |-> "text",
                     text |-> "Polygon API error: " \o Interp(Detail(rep))]>>,
                  isError |-> TRUE])
    [] OTHER -> Throw(rep.error)

\* ----------------------------------------------------------------- inputs
URIs ==
  {"stock://AAPL/current", "stock://MSFT/current", "stock://aapl/current",
   "xstock://AAPL/current", "stock://AAPL/current/", ""}

ToolNames == {"get_stock_price", "get_quote", "GET_STOCK_PRICE"}

SymbolVals == {Absent, Null, Num(5), Str("AAPL"), Str("MSFT")}
DateVals == {Absent, Null, Num(7), Str(""), Str("2024-01-05")}

ArgVals ==
  {Undef, Null, Num(1), Str("AAPL"), Arr}
    \cup {Obj([symbol |-> s, date |-> d]) : s \in SymbolVals, d \in DateVals}

Quote(s, c, f) ==
  Obj([status |-> Str("OK"), symbol |-> Str(s), open |-> Num(1), high |-> Num(4),
       low |-> Num(-2), close |-> c, volume |-> Num(1000), from |-> f])

OkReplies ==
  {[k |-> "ok", data |-> Null]}
    \cup {[k |-> "ok", data |-> Quote(s, c, f)] :
            s \in {"AAPL", "MSFT"},
            c \in {Num(-3), Num(0), Num(150)},
            f \in {Absent, Str(""), Str("2024-01-05")}}

AxiosError(message, response) ==
  [k |-> "axios", message |-> message, response |-> response]

Response(data) == Obj([data |-> data])

AxiosErrors ==
  {AxiosError("Network Error", Undef)}
    \cup {AxiosError("Request failed with status code 429", Response(d)) :
            d \in {Null, Str(""), Str("Too Many Requests"),
                   Obj([message |-> Absent]),
                   Obj([message |-> Str("")]),
                   Obj([message |-> Str("rate limited")])}}

OtherErrors == {[k |-> "other", error |-> [t |-> "Error", message |-> "boom"]]}

Replies == OkReplies \cup AxiosErrors \cup OtherErrors

\* the inputs of the overlapping runs
ConcURIs == {"stock://AAPL/current", "stock://MSFT/current"}
ConcToolNames == {"get_stock_price"}
ConcArgVals ==
  {Null, Obj([symbol |-> Str("MSFT"), date |-> Absent]),
   Obj([symbol |-> Str("TSLA"), date |-> Str("2024-01-05")])}
ConcReplies ==
  {[k |-> "ok", data |-> Quote("MSFT", Num(150), Str("2024-01-05"))],
   [k |-> "ok", data |-> Quote("TSLA", Num(0), Absent)],
   AxiosError("Network Error", Undef),
   AxiosError("Request failed with status code 429",
              Response(Obj([message |-> Str("rate limited")])))}

\* ------------------------------------------------------------------ state
Init ==
  /\ config = [api |-> API_CONFIG, axios |-> axiosInstance]
  /\ now = 0
  /\ pc = [r \in Reqs |-> "idle"]
  /\ req = [r \in Reqs |-> None]
  /\ gets = [r \in Reqs |-> <<>>]
  /\ reply = [r \in Reqs |-> None]
  /\ out = [r \in Reqs |-> None]

\* the wall clock advances
Tick ==
  /\ now < MaxClock
  /\ now' = now + 1
  /\ UNCHANGED <<config, pc, req, gets, reply, out>>

\* ReadResource handler up to its await
ReadResourceStart(r, uri) ==
  /\ pc[r] = "idle"
  /\ req' = [req EXCEPT ![r] = [kind |-> "ReadResource", uri |-> uri]]
  /\ LET step == ReadResourceBegin(config, uri) IN
       IF step.k = "throw"
         THEN /\ out' = [out EXCEPT ![r] = step]
              /\ pc' = [pc EXCEPT ![r] = "done"]
              /\ UNCHANGED gets
         ELSE /\ gets' = [gets EXCEPT ![r] = Append(@, AxiosGet(config, step.endpoint))]
              /\ pc' = [pc EXCEPT ![r] = "await"]
              /\ UNCHANGED out
  /\ UNCHANGED <<config, now, reply>>

\* ReadResource handler after its GET settled with rep
ReadResourceResume(r, rep) ==
  /\ pc[r] = "await"
  /\ req[r].kind = "ReadResource"
  /\ reply' = [reply EXCEPT ![r] = rep]
  /\ out' = [out EXCEPT ![r] = ReadResourceOutcome(req[r], rep, now)]
  /\ pc' = [pc EXCEPT ![r] = "done"]
  /\ UNCHANGED <<config, now, req, gets>>

\* CallTool handler up to its await
CallToolStart(r, name, args) ==
  /\ pc[r] = "idle"
  /\ req' = [req EXCEPT ![r] = [kind |-> "CallTool", name |-> name, arguments |-> args]]
  /\ LET step == CallToolBegin(config, name, args) IN
       IF step.k = "throw"
         THEN /\ out' = [out EXCEPT ![r] = step]
              /\ pc' = [pc EXCEPT ![r] = "done"]
              /\ UNCHANGED gets
         ELSE /\ gets' = [gets EXCEPT ![r] = Append(@, AxiosGet(config, step.endpoint))]
              /\ pc' = [pc EXCEPT ![r] = "await"]
              /\ UNCHANGED out
  /\ UNCHANGED <<config, now, reply>>

\* CallTool handler after its GET settled with rep
CallToolResume(r, rep) ==
  /\ pc[r] = "await"
  /\ req[r].kind = "CallTool"
  /\ reply' = [reply EXCEPT ![r] = rep]
  /\ out' = [out EXCEPT ![r] = CallToolOutcome(req[r], rep, now)]
  /\ pc' = [pc EXCEPT ![r] = "done"]
  /\ UNCHANGED <<config, now, req, gets>>

\* the result or error is handed to the host; the request's data is dropped
Respond(r) ==
  /\ pc[r] = "done"
  /\ pc' = [pc EXCEPT ![r] = "idle"]
  /\ req' = [req EXCEPT ![r] = None]
  /\ gets' = [gets EXCEPT ![r] = <<>>]
  /\ reply' = [reply EXCEPT ![r] = None]
  /\ out' = [out EXCEPT ![r] = None]
  /\ UNCHANGED <<config, now>>

\* one request at a time, every input
Next ==
  \/ Tick
  \/ \E uri \in URIs : ReadResourceStart(1, uri)
  \/ \E rep \in Replies : ReadResourceResume(1, rep)
  \/ \E name \in ToolNames, args \in ArgVals : CallToolStart(1, name, args)
  \/ \E rep \in Replies : CallToolResume(1, rep)
  \/ Respond(1)

Spec == Init /\ [][Next]_vars

\* overlapping requests
NextConc ==
  \/ Tick
  \/ \E r \in Reqs, uri \in ConcURIs : ReadResourceStart(r, uri)
  \/ \E r \in Reqs, rep \in ConcReplies : ReadResourceResume(r, rep)
  \/ \E r \in Reqs, name \in ConcToolNames, args \in ConcArgVals : CallToolStart(r, name, args)
  \/ \E r \in Reqs, rep \in ConcReplies : CallToolResume(r, rep)
  \/ \E r \in Reqs : Respond(r)

SpecConc == Init /\ [][NextConc]_vars

TypeOK ==
  /\ now \in 0..MaxClock
  /\ \A r \in Reqs : pc[r] \in {"idle", "await", "done"}

\* ------------------------------------------------------------- properties
\* r is handling, or has handled, a CallTool request for get_stock_price
IsPriceCall(r) ==
  /\ pc[r] # "idle"
  /\ req[r].kind = "CallTool"
  /\ req[r].name = "get_stock_price"

IsRead(r) == pc[r] # "idle" /\ req[r].kind = "ReadResource"

\* the LookupArgs shape: an object with a string symbol and a date that is
\* absent or a string
LookupShape(a) ==
  /\ a.t = "object"
  /\ a.f.symbol.t = "string"
  /\ a.f.date.t \in {"absent", "string"}

\* the value of member k of a serialized StockData
Field(text, k) ==
  IF \E i \in 1..Len(text) : text[i].key = k
    THEN text[CHOOSE i \in 1..Len(text) : text[i].key = k].value
    ELSE Undef

OneGetTo(r, url) == Len(gets[r]) = 1 /\ gets[r][1].url = url

C2_NoDateLastTrade ==
  \A r \in Reqs :
    (IsPriceCall(r) /\ LookupShape(req[r].arguments)
       /\ req[r].arguments.f.date.t = "absent")
    => OneGetTo(r, "last/stocks/" \o req[r].arguments.f.symbol.v)

C2_Witness ==
  \E r \in Reqs :
    /\ IsPriceCall(r) /\ pc[r] = "done"
    /\ req[r].arguments = Obj([symbol |-> Str("AAPL"), date |-> Absent])
    /\ reply[r].k = "axios"
    /\ OneGetTo(r, "last/stocks/AAPL")

\* the message of the provider's error body, when the error has one
HasProviderMessage(e) ==
  /\ e.response.t = "object"
  /\ e.response.f.data.t = "object"
  /\ e.response.f.data.f.message.t = "string"

ErrorText(e) ==
  "Polygon API error: "
    \o (IF HasProviderMessage(e) THEN e.response.f.data.f.message.v ELSE e.message)

\* C3: a get_stock_price call whose GET failed with a transport error returns
\* one text entry "Polygon API error: " + message with isError set.
C3_ToolErrorReturned ==
  \A r \in Reqs :
    (IsPriceCall(r) /\ pc[r] = "done" /\ reply[r] # None /\ reply[r].k = "axios")
    => /\ out[r].k = "return"
       /\ out[r].value.isError = TRUE
       /\ Len(out[r].value.content) = 1
       /\ out[r].value.content[1].type = "text"
       /\ out[r].value.content[1].text = ErrorText(reply[r])

\* C4: a ReadResource whose GET failed with a transport error fails with an
\* McpError of code InternalError carrying the message.
C4_ReadErrorInternal ==
  \A r \in Reqs :
    (IsRead(r) /\ pc[r] = "done" /\ reply[r] # None /\ reply[r].k = "axios")
    => /\ out[r].k = "throw"
       /\ out[r].error.t = "McpError"
       /\ out[r].error.code = "InternalError"
       /\ out[r].error.message = ErrorText(reply[r])

\* r returned a StockData
ReturnedStockData(r) ==
  /\ pc[r] = "done"
  /\ out[r].k = "return"
  /\ reply[r].k = "ok"

StockDataOf(r) ==
  IF req[r].kind = "ReadResource"
    THEN out[r].value.contents[1].text
    ELSE out[r].value.content[1].text

FreshTimestamps == {Str(toISOString(c)) : c \in 0..MaxClock}

\* C5: every returned StockData has the reply's from as timestamp when from is
\* a non-empty string, and a fresh timestamp otherwise.
C5_TimestampFromReply ==
  \A r \in Reqs :
    ReturnedStockData(r)
    => LET from == reply[r].data.f.from
           timestamp == Field(StockDataOf(r), "timestamp")
       IN IF from.t = "string" /\ from.v # ""
            THEN timestamp = from
            ELSE timestamp \in FreshTimestamps

\* C6: a get_stock_price call whose arguments are not of the LookupArgs shape
\* fails with InvalidParams and issues no GET.
C6_BadArgsInvalidParams ==
  \A r \in Reqs :
    (IsPriceCall(r) /\ ~LookupShape(req[r].arguments))
    => /\ pc[r] = "done"
       /\ out[r].k = "throw"
       /\ out[r].error.t = "McpError"
       /\ out[r].error.code = "InvalidParams"
       /\ gets[r] = <<>>
       /\ reply[r] = None

C6_Witness ==
  \E r \in Reqs :
    /\ IsPriceCall(r) /\ pc[r] = "done"
    /\ req[r].arguments = Obj([symbol |-> Str("AAPL"), date |-> Num(7)])
    /\ out[r].k = "throw"
    /\ gets[r] = <<>>

\* C7: a CallTool request for any other tool name fails with MethodNotFound,
\* whatever its arguments, and issues no GET.
C7_UnknownToolMethodNotFound ==
  \A r \in Reqs :
    (pc[r] # "idle" /\ req[r].kind = "CallTool" /\ req[r].name # "get_stock_price")
    => /\ pc[r] = "done"
       /\ out[r].k = "throw"
       /\ out[r].error.t = "McpError"
       /\ out[r].error.code = "MethodNotFound"
       /\ gets[r] = <<>>
       /\ reply[r] = None

C7_Witness ==
  \E r \in Reqs :
    /\ pc[r] = "done" /\ req[r].kind = "CallTool"
    /\ req[r].name = "get_quote"
    /\ req[r].arguments = Null
    /\ out[r].k = "throw"
    /\ gets[r] = <<>>

\* C8: a ReadResource for any URI but stock://AAPL/current fails with
\* InvalidRequest and issues no GET; for that URI it issues exactly one GET, to
\* last/stocks/AAPL.
C8_ExactUri ==
  \A r \in Reqs :
    IsRead(r)
    => IF req[r].uri = "stock://AAPL/current"
         THEN OneGetTo(r, "last/stocks/AAPL")
         ELSE /\ pc[r] = "done"
              /\ out[r].k = "throw"
              /\ out[r].error.t = "McpError"
              /\ out[r].error.code = "InvalidRequest"
              /\ gets[r] = <<>>
              /\ reply[r] = None

C8_Witness ==
  \E r \in Reqs :
    /\ IsRead(r) /\ pc[r] = "done"
    /\ req[r].uri = "stock://AAPL/current/"
    /\ out[r].k = "throw"
    /\ gets[r] = <<>>

\* C9: every returned StockData has the reply's close as price, zero and
\* negative values included, and the reply's open, high, low, volume and symbol.
C9_PriceIsClose ==
  \A r \in Reqs :
    ReturnedStockData(r)
    => LET data == reply[r].data.f
           sd == StockDataOf(r)
       IN /\ Field(sd, "price") = data.close
          /\ Field(sd, "open") = data.open
          /\ Field(sd, "high") = data.high
          /\ Field(sd, "low") = data.low
          /\ Field(sd, "volume") = data.volume
          /\ Field(sd, "symbol") = data.symbol

C9_Witness ==
  \E r \in Reqs :
    /\ ReturnedStockData(r)
    /\ req[r].kind = "CallTool"
    /\ reply[r].data.f.close = Num(-3)
    /\ Field(StockDataOf(r), "price") = Num(-3)

\* what a request owns
Slot(r) == <<pc[r], req[r], gets[r], reply[r], out[r]>>

\* the GET of r is the one its own input asks for
OwnGet(r) ==
  IF req[r].kind = "ReadResource"
    THEN OneGetTo(r, "last/stocks/AAPL")
    ELSE LET a == req[r].arguments.f IN
           IF a.date.t = "string" /\ a.date.v # ""
             THEN OneGetTo(r, "open-close/" \o a.symbol.v \o "/" \o a.date.v)
             ELSE OneGetTo(r, "last/stocks/" \o a.symbol.v)

\* the outcome of r is made of its own reply
OwnOutcome(r) ==
  CASE reply[r].k = "ok" ->
         /\ out[r].k = "return"
         /\ Field(StockDataOf(r), "symbol") = reply[r].data.f.symbol
         /\ Field(StockDataOf(r), "price") = reply[r].data.f.close
    [] reply[r].k = "axios" ->
         IF req[r].kind = "ReadResource"
           THEN out[r].k = "throw" /\ out[r].error.message = ErrorText(reply[r])
           ELSE out[r].k = "return"
                  /\ out[r].value.content[1].text = ErrorText(reply[r])
    [] OTHER -> out[r] = Throw(reply[r].error)

C10_Own ==
  \A r \in Reqs :
    /\ pc[r] = "await" => OwnGet(r)
    /\ (pc[r] = "done" /\ reply[r] # None) => OwnGet(r) /\ OwnOutcome(r)

\* C10: with requests overlapping, every step leaves the configuration as it
\* was built, changes the data of one request at most, and leaves every request
\* with the GET its own input asks for and the outcome its own reply gives.
C10_Independent ==
  [][/\ config' = config
     /\ config = [api |-> API_CONFIG, axios |-> axiosInstance]
     /\ \A r, q \in Reqs : (r # q /\ Slot(r)' # Slot(r)) => Slot(q)' = Slot(q)
     /\ C10_Own']_vars

C10_Witness ==
  \E r, q \in Reqs :
    /\ r # q
    /\ pc[r] = "await" /\ req[r].kind = "CallTool"
    /\ pc[q] = "done" /\ req[q].kind = "CallTool" /\ reply[q] # None
    /\ reply[q].k = "ok"
    /\ req[r].arguments # req[q].arguments
    /\ gets[r] # gets[q]

====
